---- MODULE Spec2Model ----
(***************************************************************************)
(* Model of src/bot.py: a Telegram bot that remote-controls an n8n server. *)
(* One action per handler registered in main().  Each action handles one   *)
(* update to completion and records what the handler did: the messages it  *)
(* handed to the chat transport, the external calls it issued, the faults  *)
(* those calls raised, and whether an exception left the handler.          *)
(*                                                                         *)
(* Environment: outcomes of the container runtime, of the n8n HTTP API, of *)
(* the filesystem, of archive handling and of attachment uploads are       *)
(* chosen nondeterministically per call.  Text outputs (reply_text,        *)
(* edit_text, edit_message_text, answer) and the download of an uploaded   *)
(* document are taken as accepted by the chat transport.                   *)
(*                                                                         *)
(* Python str values are tuples of one-character strings, so startswith,   *)
(* endswith, split and f-string concatenation are computed, not assumed.   *)
(***************************************************************************)
EXTENDS Integers, Sequences, FiniteSets, TLC

VARIABLES
    update,   \* the update handled last: kind, user, payload
    sent,     \* messages the handler gave to the chat transport, in order
    calls,    \* external calls the handler issued, in order
    outcome,  \* "idle" | "returned" | "escaped" (an exception left the handler)
    locals,   \* the handler's locals of interest: branch taken, wf_id, wfs, res
    menu,     \* inline keyboard of the bot's latest menu message
    pre,      \* filesystem when the handler was entered
    fs        \* filesystem: the log, backup and data directories

vars == <<update, sent, calls, outcome, locals, menu, pre, fs>>

(***************************** bounds **************************************)
MaxWorkflows == 1   \* longest workflow list the registry returns
MaxLogLen == 7100   \* longest tail_log output, in characters

(************************** configuration **********************************)
AUTHORIZED_ID == 1
ChunkSize == 3500
SingleReplyCeiling == 4000
LogsPrefixLen == 6  \* len("Logs:\n")

\* the authorized caller and a stranger
Users == {AUTHORIZED_ID, AUTHORIZED_ID + 1}

(***************************** Python str **********************************)
\* Python's None among str values: no str is a tuple holding a longer string
None == <<"<None>">>

StartsWith(s, p) == Len(s) >= Len(p) /\ SubSeq(s, 1, Len(p)) = p

EndsWith(s, p) == Len(s) >= Len(p) /\ SubSeq(s, Len(s) - Len(p) + 1, Len(s)) = p

\* index of the first "_" of s, 0 when there is none
FindUnderscore(s) ==
    IF \E i \in 1..Len(s) : s[i] = "_"
    THEN CHOOSE i \in 1..Len(s) : s[i] = "_" /\ \A j \in 1..(i - 1) : s[j] # "_"
    ELSE 0

\* data.split("_", 1)[1]; None stands for the IndexError when data holds no "_"
SplitOnce(data) ==
    LET i == FindUnderscore(data)
    IN  IF i = 0 THEN None ELSE SubSeq(data, i + 1, Len(data))

s_run == <<"r", "u", "n", "_">>
s_enable == <<"e", "n", "a", "b", "l", "e", "_">>
s_disable == <<"d", "i", "s", "a", "b", "l", "e", "_">>
s_backup == <<"b", "a", "c", "k", "u", "p", "_">>
s_delete == <<"d", "e", "l", "e", "t", "e", "_">>
s_backup_n8n == <<"b", "a", "c", "k", "u", "p", "_", "n", "8", "n">>
s_restore_n8n == <<"r", "e", "s", "t", "o", "r", "e", "_", "n", "8", "n">>
s_delete_logs == <<"d", "e", "l", "e", "t", "e", "_", "l", "o", "g", "s">>
s_delete_backups == <<"d", "e", "l", "e", "t", "e", "_", "b", "a", "c", "k", "u", "p", "s">>
s_list_workflows == <<"l", "i", "s", "t", "_", "w", "o", "r", "k", "f", "l", "o", "w", "s">>
s_status == <<"s", "t", "a", "t", "u", "s">>
s_None == <<"N", "o", "n", "e">>
s_tar_gz == <<".", "t", "a", "r", ".", "g", "z">>
s_tgz == <<".", "t", "g", "z">>
s_json == <<".", "j", "s", "o", "n">>

\* a falsy value of Python's `or` chain: None or the empty string
Falsy(v) == v = None \/ v = <<>>

\* str(v) for v a str or None
Str(v) == IF v = None THEN s_None ELSE v

(****************************** values *************************************)
\* JSON values a registry response can carry
NoneType == [type |-> "NoneType"]
List(items) == [type |-> "list", items |-> items]
Dict == [type |-> "dict"]

\* a workflow object of the registry: each key a str, or None when absent
Workflow(id, workflowId, uuid, name, label) ==
    [id |-> id, workflowId |-> workflowId, uuid |-> uuid, name |-> name, label |-> label]

\* an external call and whether it raised
Call(sys, op, arg, raised) ==
    [sys |-> sys, op |-> op, arg |-> arg, raised |-> raised, status |-> 0]

\* an HTTP request: it raised, or it returned a response with this status
Http(method, url, r) ==
    [sys |-> "http", op |-> method, arg |-> url, raised |-> r.raises, status |-> r.status]

Url(id, action) == [base |-> "workflows", id |-> id, action |-> action]

\* an output handed to the chat transport
Msg(op, text) ==
    [op |-> op, text |-> text, target |-> 0, off |-> 0, len |-> 0,
     markup |-> <<>>, detail |-> "", raised |-> FALSE]

\* outcome of one HTTP request: an exception, or a response
Raises == [raises |-> TRUE, status |-> 0, body |-> "empty", json |-> NoneType]
Response(status, body, json) ==
    [raises |-> FALSE, status |-> status, body |-> body, json |-> json]

\* requests.Response.ok
Ok(r) == r.status < 400

(**************************** filesystem ***********************************)
Absent == [exists |-> FALSE, files |-> {}, dirs |-> {}]

\* a directory: absent, or holding some of fileNames and the subdirectories dirNames
Dirs(fileNames, dirNames) ==
    {Absent} \cup [exists : {TRUE}, files : SUBSET fileNames, dirs : {dirNames}]

LogFiles == {"n8n.log", "old.log"}
BackupFiles == {"n8n_backup.tar.gz", "workflow.json"}

FsStates ==
    [logs : Dirs(LogFiles, {"archive"}),
     backups : Dirs(BackupFiles, {"keep"}),
     data : {Absent, [exists |-> TRUE, files |-> {"database.sqlite"}, dirs |-> {}]}]

(************************ n8n workflow helpers *****************************)
list_workflows(r) ==
    [calls |-> <<Http("GET", Url(<<>>, ""), r)>>,
     ret |-> IF r.raises THEN List(<<>>)
             ELSE IF Ok(r)
                  THEN IF r.body = "json" THEN r.json ELSE List(<<>>)
                  ELSE NoneType]

get_workflow(wf_id, r) ==
    [calls |-> <<Http("GET", Url(wf_id, ""), r)>>,
     ret |-> IF r.raises THEN NoneType
             ELSE IF Ok(r)
                  THEN IF r.body = "json" THEN r.json ELSE NoneType
                  ELSE NoneType]

Endpoints(wf_id) == <<Url(wf_id, "execute"), Url(wf_id, "run"), Url(wf_id, "executions")>>

Accepted(r) == ~r.raises /\ r.status \in {200, 201, 202}

\* r.json() if r.content else {"status": r.status_code}; raises on a body that is no JSON
Parses(r) == r.body \in {"empty", "json"}

RECURSIVE probe(_, _, _, _)
probe(wf_id, rs, i, done) ==
    IF i > Len(Endpoints(wf_id))
    THEN [calls |-> done, ret |-> [ok |-> FALSE, via |-> 0]]
    ELSE LET r == rs[i]
             c == Http("POST", Endpoints(wf_id)[i], r)
         IN  IF Accepted(r) /\ Parses(r)
             THEN [calls |-> Append(done, c), ret |-> [ok |-> TRUE, via |-> i]]
             ELSE probe(wf_id, rs, i + 1, Append(done, c))

run_workflow(wf_id, rs) == probe(wf_id, rs, 1, <<>>)

post_once(method, wf_id, action, r) ==
    [calls |-> <<Http(method, Url(wf_id, action), r)>>,
     ret |-> ~r.raises /\ Ok(r)]

enable_workflow(wf_id, r) == post_once("POST", wf_id, "activate", r)

disable_workflow(wf_id, r) == post_once("POST", wf_id, "deactivate", r)

delete_workflow(wf_id, r) == post_once("DELETE", wf_id, "", r)

\* what export_workflow leaves in the backup directory: made if absent, then the
\* export file opened for writing
WithBackupDir(f) == [f EXCEPT !.backups.exists = TRUE]

WithBackupFile(f, name) ==
    [f EXCEPT !.backups.exists = TRUE, !.backups.files = @ \cup {name}]

\* fault: "none", or the step that raises: "makedirs", "open", "write"
export_workflow(wf_id, r, fault, f) ==
    LET wf == get_workflow(wf_id, r)
        mk == Call("fs", "makedirs", "backups", fault = "makedirs")
        op == Call("fs", "open", "workflow.json", fault = "open")
        wr == Call("fs", "write", "workflow.json", fault = "write")
    IN  IF wf.ret = NoneType
        THEN [exc |-> FALSE, ret |-> None, calls |-> wf.calls, fs |-> f]
        ELSE IF fault = "makedirs"
        THEN [exc |-> TRUE, ret |-> None, calls |-> wf.calls \o <<mk>>, fs |-> f]
        ELSE IF fault = "open"
        THEN [exc |-> TRUE, ret |-> None, calls |-> wf.calls \o <<mk, op>>,
              fs |-> WithBackupDir(f)]
        ELSE [exc |-> fault = "write",
              ret |-> IF fault = "write" THEN None ELSE <<"p", "a", "t", "h">>,
              calls |-> wf.calls \o <<mk, op, wr>>,
              fs |-> WithBackupFile(f, "workflow.json")]

\* restore_workflow_from_file changed to post once more when the first answer is not ok
restore_workflow_retrying(readable, r) ==
    LET rd == Call("fs", "read", "tmp", ~readable)
        post == Http("POST", Url(<<>>, "import"), r)
    IN  IF ~readable
        THEN [ret |-> FALSE, calls |-> <<rd>>]
        ELSE [ret |-> ~r.raises /\ Ok(r),
              calls |-> IF ~r.raises /\ Ok(r) THEN <<rd, post>> ELSE <<rd, post, post>>]

\* readable: open() and f.read() of the downloaded file succeed
restore_workflow_from_file(readable, r) ==
    LET rd == Call("fs", "read", "tmp", ~readable)
    IN  IF ~readable
        THEN [ret |-> FALSE, calls |-> <<rd>>]
        ELSE [ret |-> ~r.raises /\ Ok(r),
              calls |-> <<rd, Http("POST", Url(<<>>, "import"), r)>>]

(*********************** Docker container helpers **************************)
\* c: "ok", or what raises: "not_found", "get_error" (containers.get), "op_error"
GetRaises(c) == c \in {"not_found", "get_error"}

get_container_status(c, status) ==
    [calls |-> <<Call("docker", "get", "status", GetRaises(c))>>,
     ret |-> IF c = "not_found" THEN "not found"
             ELSE IF c = "get_error" THEN "error" ELSE status]

\* each call carries the operation it serves
container_op(op, c) ==
    [calls |-> IF GetRaises(c)
               THEN <<Call("docker", "get", op, TRUE)>>
               ELSE <<Call("docker", "get", op, FALSE), Call("docker", op, op, c = "op_error")>>,
     ret |-> c = "ok"]

container_restart(c) == container_op("restart", c)

container_start(c) == container_op("start", c)

container_stop(c) == container_op("stop", c)

(************************** filesystem helpers *****************************)
\* fault: "none", or the step that raises: "makedirs", "taropen", "taradd"
make_backup(fault, f) ==
    LET mk == Call("fs", "makedirs", "backups", fault = "makedirs")
        op == Call("tar", "open_w", "n8n_backup.tar.gz", fault = "taropen")
        ad == Call("tar", "add", "n8n_backup.tar.gz", fault = "taradd")
    IN  IF fault = "makedirs"
        THEN [exc |-> TRUE, calls |-> <<mk>>, fs |-> f]
        ELSE IF fault = "taropen"
        THEN [exc |-> TRUE, calls |-> <<mk, op>>, fs |-> WithBackupDir(f)]
        ELSE [exc |-> fault = "taradd", calls |-> <<mk, op, ad>>,
              fs |-> WithBackupFile(f, "n8n_backup.tar.gz")]

LogFileExists(f) == f.logs.exists /\ "n8n.log" \in f.logs.files

\* the length of the text tail_log returns; n is the length of the log text read
tail_log(f, readFails, c, n) ==
    IF ~LogFileExists(f)
    THEN IF GetRaises(c)
         THEN [calls |-> <<Call("docker", "get", "logs", TRUE)>>, len |-> 18]
         ELSE IF c = "op_error"
         THEN [calls |-> <<Call("docker", "get", "logs", FALSE),
                           Call("docker", "logs", "logs", TRUE)>>, len |-> 18]
         ELSE [calls |-> <<Call("docker", "get", "logs", FALSE),
                           Call("docker", "logs", "logs", FALSE)>>, len |-> n]
    ELSE [calls |-> <<Call("fs", "read", "n8n.log", readFails)>>,
          len |-> IF readFails THEN 24 ELSE n]

(*************************** inline keyboards ******************************)
Button(verb, label, data) == [verb |-> verb, label |-> label, callback_data |-> data]

NoKeyboard == <<>>

main_keyboard ==
    << <<Button("Backup n8n", <<>>, s_backup_n8n), Button("Restore n8n", <<>>, s_restore_n8n)>>,
       <<Button("Delete Logs", <<>>, s_delete_logs), Button("Delete Backups", <<>>, s_delete_backups)>>,
       <<Button("List Workflows", <<>>, s_list_workflows)>>,
       <<Button("Status", <<>>, s_status)>> >>

\* wf.get('id') or wf.get('workflowId') or wf.get('uuid') or str(wf.get('id'))
Wid(wf) ==
    IF ~Falsy(wf.id) THEN wf.id
    ELSE IF ~Falsy(wf.workflowId) THEN wf.workflowId
    ELSE IF ~Falsy(wf.uuid) THEN wf.uuid
    ELSE Str(wf.id)

\* wf.get('name') or wf.get('label') or f"workflow_{wid}"
Name(wf) ==
    IF ~Falsy(wf.name) THEN wf.name
    ELSE IF ~Falsy(wf.label) THEN wf.label
    ELSE <<"w", "o", "r", "k", "f", "l", "o", "w", "_">> \o Wid(wf)

workflow_row(wf) ==
    <<Button("Run", Name(wf), s_run \o Wid(wf)),
      Button("Enable", <<>>, s_enable \o Wid(wf)),
      Button("Disable", <<>>, s_disable \o Wid(wf)),
      Button("Backup", <<>>, s_backup \o Wid(wf)),
      Button("Delete", <<>>, s_delete \o Wid(wf))>>

\* iterating a dict yields its keys, and str has no .get: that raises
workflow_keyboard(wfs) ==
    IF wfs.type = "list"
    THEN [exc |-> FALSE, markup |-> [i \in 1..Len(wfs.items) |-> workflow_row(wfs.items[i])]]
    ELSE [exc |-> TRUE, markup |-> NoKeyboard]

(****************************** bookkeeping ********************************)
Command(name, user) ==
    [kind |-> "command", user |-> user, name |-> name, data |-> <<>>,
     verb |-> "", wid |-> None]

\* a button press: the token it carries, and what the pressed button was built as
\* (verb and wid are "" and None for a button that is not of the workflow menu)
CallbackQuery(user, data, verb, wid) ==
    [kind |-> "callback", user |-> user, name |-> "", data |-> data,
     verb |-> verb, wid |-> wid]

Document(user, fname) ==
    [kind |-> "document", user |-> user, name |-> "", data |-> fname,
     verb |-> "", wid |-> None]

NoUpdate == [kind |-> "none", user |-> 0, name |-> "", data |-> <<>>, verb |-> "", wid |-> None]

Unset == [type |-> "unset"]

NoLocals == [branch |-> "", wf_id |-> None, wfs |-> Unset, res |-> Unset]

NoMenu == [markup |-> NoKeyboard, wids |-> <<>>]

Reply(text) == Msg("reply_text", text)

\* msg.edit_text / query.edit_message_text: replaces the text of message `target`
\* of this handler's outputs (0: the message that carries the pressed button)
Edit(target, text) == [Msg("edit", text) EXCEPT !.target = target]

Attachment(raised) == [Msg("reply_document", "") EXCEPT !.raised = raised]

Handled(upd, msgs, cs, out, loc, mn, f) ==
    /\ outcome = "idle"
    /\ update' = upd
    /\ sent' = msgs
    /\ calls' = cs
    /\ outcome' = out
    /\ locals' = loc
    /\ menu' = mn
    /\ pre' = fs
    /\ fs' = f

(******************************** handlers *********************************)
is_authorized(user_id) == user_id = AUTHORIZED_ID

start_handler(u) ==
    IF ~is_authorized(u)
    THEN Handled(Command("start", u), <<Reply("Unauthorized")>>, <<>>, "returned",
                 NoLocals, menu, fs)
    ELSE Handled(Command("start", u),
                 <<[Reply("n8n Manager Bot - Main Menu") EXCEPT !.markup = main_keyboard]>>,
                 <<>>, "returned", NoLocals,
                 [markup |-> main_keyboard, wids |-> <<>>], fs)

help_handler(u) ==
    IF ~is_authorized(u)
    THEN Handled(Command("help", u), <<Reply("Unauthorized")>>, <<>>, "returned",
                 NoLocals, menu, fs)
    ELSE Handled(Command("help", u), <<Reply("Commands")>>, <<>>, "returned",
                 NoLocals, menu, fs)

Popen == <<Call("os", "popen", "top", FALSE), Call("os", "popen", "free", FALSE),
           Call("os", "popen", "df", FALSE)>>

StatusText(c_status) == [Reply("status") EXCEPT !.detail = c_status]

status_handler(u, c, status) ==
    IF ~is_authorized(u)
    THEN Handled(Command("status", u), <<Reply("Unauthorized")>>, <<>>, "returned",
                 NoLocals, menu, fs)
    ELSE LET s == get_container_status(c, status)
         IN  Handled(Command("status", u), <<StatusText(s.ret)>>, Popen \o s.calls,
                     "returned", NoLocals, menu, fs)

n8n_start_cmd(u, c) ==
    LET a == container_start(c)
    IN  Handled(Command("n8n_start", u),
                <<Reply(IF a.ret THEN "n8n started" ELSE "Failed to start n8n")>>,
                a.calls, "returned", NoLocals, menu, fs)

n8n_stop_cmd(u, c) ==
    LET a == container_stop(c)
    IN  Handled(Command("n8n_stop", u),
                <<Reply(IF a.ret THEN "n8n stopped" ELSE "Failed to stop n8n")>>,
                a.calls, "returned", NoLocals, menu, fs)

n8n_restart_cmd(u, c) ==
    LET a == container_restart(c)
    IN  Handled(Command("n8n_restart", u),
                <<Reply(IF a.ret THEN "n8n restarted" ELSE "Failed to restart n8n")>>,
                a.calls, "returned", NoLocals, menu, fs)

\* number of values of range(0, n, ChunkSize)
RangeLen(n) == (n + ChunkSize - 1) \div ChunkSize

Min(a, b) == IF a < b THEN a ELSE b

\* logs[i:i+3500] for the k-th value i of the range
Chunk(n, k) ==
    LET i == (k - 1) * ChunkSize
    IN  [Reply("chunk") EXCEPT !.off = i, !.len = Min(i + ChunkSize, n) - i]

\* LogReplies changed to split whatever exceeds one chunk
LogReplies_split_above_chunk(n) ==
    IF n > ChunkSize
    THEN [k \in 1..RangeLen(n) |-> Chunk(n, k)]
    ELSE <<[Reply("Logs:") EXCEPT !.len = LogsPrefixLen + n]>>

LogReplies(n) ==
    IF n > SingleReplyCeiling
    THEN [k \in 1..RangeLen(n) |-> Chunk(n, k)]
    ELSE <<[Reply("Logs:") EXCEPT !.len = LogsPrefixLen + n]>>

n8n_logs_cmd(u, readFails, c, n) ==
    LET t == tail_log(fs, readFails, c, n)
    IN  Handled(Command("n8n_logs", u), LogReplies(t.len), t.calls, "returned",
                [NoLocals EXCEPT !.res = [len |-> t.len]], menu, fs)

\* backup_cmd with reply_document moved out of the try block
backup_cmd_send_unguarded(u, fault) ==
    LET b == make_backup(fault, fs)
        ack == Reply("Creating backup...")
    IN  IF b.exc
        THEN Handled(Command("backup", u), <<ack, Edit(1, "Backup failed")>>, b.calls,
                     "returned", NoLocals, menu, b.fs)
        ELSE IF fault = "send"
        THEN Handled(Command("backup", u), <<ack, Attachment(TRUE)>>, b.calls,
                     "escaped", NoLocals, menu, b.fs)
        ELSE Handled(Command("backup", u),
                     <<ack, Attachment(FALSE), Edit(1, "Backup completed")>>, b.calls,
                     "returned", NoLocals, menu, b.fs)

\* fault: "none", a step of make_backup that raises, or "send" (reply_document raises)
backup_cmd(u, fault) ==
    LET b == make_backup(fault, fs)
        ack == Reply("Creating backup...")
    IN  IF b.exc
        THEN Handled(Command("backup", u), <<ack, Edit(1, "Backup failed")>>, b.calls,
                     "returned", NoLocals, menu, b.fs)
        ELSE IF fault = "send"
        THEN Handled(Command("backup", u),
                     <<ack, Attachment(TRUE), Edit(1, "Backup failed")>>, b.calls,
                     "returned", NoLocals, menu, b.fs)
        ELSE Handled(Command("backup", u),
                     <<ack, Attachment(FALSE), Edit(1, "Backup completed")>>, b.calls,
                     "returned", NoLocals, menu, b.fs)

restore_cmd_prompt(u) ==
    Handled(Command("restore", u), <<Reply("Please upload the backup")>>, <<>>,
            "returned", NoLocals, menu, fs)

\* the lambda registered for /list_workflows
list_workflows_cmd(u) ==
    Handled(Command("list_workflows", u), <<Reply("Use /start and the List Workflows button.")>>,
            <<>>, "returned", NoLocals, menu, fs)

\* what tar.extractall(path="/") leaves behind: the archive's data directory,
\* or nothing of it when it raises before that member
Extracted(f, whole) ==
    IF whole
    THEN [f EXCEPT !.data = [exists |-> TRUE, files |-> {"database.sqlite"}, dirs |-> {}]]
    ELSE f

Download == Call("fs", "download", "tmp", FALSE)

\* full_restore changed to restart the container before it extracts
full_restore_restart_first(archive, c, f) ==
    IF archive = "unreadable"
    THEN [msgs |-> <<Reply("Restore failed")>>,
          calls |-> container_restart(c).calls \o <<Call("tar", "open_r", "tmp", TRUE)>>,
          fs |-> f]
    ELSE IF archive = "truncated"
    THEN [msgs |-> <<Reply("Restore failed")>>,
          calls |-> container_restart(c).calls
                    \o <<Call("tar", "open_r", "tmp", FALSE), Call("tar", "extractall", "/", TRUE)>>,
          fs |-> Extracted(f, FALSE)]
    ELSE [msgs |-> <<Reply("Full n8n backup restored")>>,
          calls |-> container_restart(c).calls
                    \o <<Call("tar", "open_r", "tmp", FALSE), Call("tar", "extractall", "/", FALSE)>>,
          fs |-> Extracted(f, TRUE)]

\* the try block of the archive branch
\* archive: "good" | "unreadable" (tarfile.open raises) | "truncated" (extractall raises)
full_restore(archive, c, f) ==
    IF archive = "unreadable"
    THEN [msgs |-> <<Reply("Restore failed")>>,
          calls |-> <<Call("tar", "open_r", "tmp", TRUE)>>, fs |-> f]
    ELSE IF archive = "truncated"
    THEN [msgs |-> <<Reply("Restore failed")>>,
          calls |-> <<Call("tar", "open_r", "tmp", FALSE), Call("tar", "extractall", "/", TRUE)>>,
          fs |-> Extracted(f, FALSE)]
    ELSE [msgs |-> <<Reply("Full n8n backup restored")>>,
          calls |-> <<Call("tar", "open_r", "tmp", FALSE), Call("tar", "extractall", "/", FALSE)>>
                    \o container_restart(c).calls,
          fs |-> Extracted(f, TRUE)]

\* fname: doc.file_name (None when the document carries no name)
handle_file(u, fname, archive, c, readable, r) ==
    IF fname = None
    THEN \* os.path.join("/tmp", None) raises TypeError outside any try
         Handled(Document(u, fname), <<>>, <<>>, "escaped", NoLocals, menu, fs)
    ELSE IF EndsWith(fname, s_tar_gz) \/ EndsWith(fname, s_tgz)
    THEN LET a == full_restore(archive, c, fs)
         IN  Handled(Document(u, fname), a.msgs, <<Download>> \o a.calls, "returned",
                     [NoLocals EXCEPT !.branch = "full_restore"], menu, a.fs)
    ELSE IF EndsWith(fname, s_json)
    THEN LET a == restore_workflow_from_file(readable, r)
         IN  Handled(Document(u, fname),
                     <<Reply(IF a.ret THEN "Workflow restore successful"
                                      ELSE "Workflow restore failed")>>,
                     <<Download>> \o a.calls, "returned",
                     [NoLocals EXCEPT !.branch = "workflow_import"], menu, fs)
    ELSE Handled(Document(u, fname), <<Reply("Unsupported file type")>>, <<Download>>,
                 "returned", [NoLocals EXCEPT !.branch = "unsupported"], menu, fs)

(************************* inline buttons callback *************************)
RECURSIVE SeqOf(_)
SeqOf(S) == IF S = {} THEN <<>> ELSE LET x == CHOOSE y \in S : TRUE IN <<x>> \o SeqOf(S \ {x})

Removes(names, failing) ==
    [i \in 1..Len(SeqOf(names)) |-> Call("fs", "remove", SeqOf(names)[i], FALSE)]
    \o (IF failing = "" THEN <<>> ELSE <<Call("fs", "remove", failing, TRUE)>>)

\* delete_all_in changed to remove every entry, subdirectories included
delete_all_in_recursive(dir, d, del) ==
    LET ex == Call("fs", "exists", dir, FALSE)
    IN  IF ~d.exists
        THEN [exc |-> FALSE, calls |-> <<ex>>, dir |-> d]
        ELSE IF del.kind = "listdir"
        THEN [exc |-> TRUE, calls |-> <<ex, Call("fs", "listdir", dir, TRUE)>>, dir |-> d]
        ELSE IF del.kind = "remove" /\ del.at \in d.files
        THEN [exc |-> TRUE,
              calls |-> <<ex, Call("fs", "listdir", dir, FALSE)>>
                        \o Removes(del.gone \cap d.files, del.at),
              dir |-> [d EXCEPT !.files = @ \ del.gone]]
        ELSE [exc |-> FALSE,
              calls |-> <<ex, Call("fs", "listdir", dir, FALSE)>>
                        \o Removes(d.files \cup d.dirs, ""),
              dir |-> [d EXCEPT !.files = {}, !.dirs = {}]]

\* the loop of the delete_logs / delete_backups branch over directory d (named dir)
\* del: [kind |-> "ok"], [kind |-> "listdir"] (os.listdir raises), or
\*      [kind |-> "remove", at |-> file whose os.remove raises, gone |-> files removed before it]
delete_all_in(dir, d, del) ==
    LET ex == Call("fs", "exists", dir, FALSE)
    IN  IF ~d.exists
        THEN [exc |-> FALSE, calls |-> <<ex>>, dir |-> d]
        ELSE IF del.kind = "listdir"
        THEN [exc |-> TRUE, calls |-> <<ex, Call("fs", "listdir", dir, TRUE)>>, dir |-> d]
        ELSE IF del.kind = "remove" /\ del.at \in d.files
        THEN [exc |-> TRUE,
              calls |-> <<ex, Call("fs", "listdir", dir, FALSE)>>
                        \o Removes(del.gone \cap d.files, del.at),
              dir |-> [d EXCEPT !.files = @ \ del.gone]]
        ELSE [exc |-> FALSE,
              calls |-> <<ex, Call("fs", "listdir", dir, FALSE)>> \o Removes(d.files, ""),
              dir |-> [d EXCEPT !.files = {}]]

\* the if/elif chain of callback_handler: the branch that token data selects
Branch(data) ==
    IF data = s_backup_n8n THEN "backup_n8n"
    ELSE IF data = s_restore_n8n THEN "restore_n8n"
    ELSE IF data = s_delete_logs THEN "delete_logs"
    ELSE IF data = s_delete_backups THEN "delete_backups"
    ELSE IF data = s_list_workflows THEN "list_workflows"
    ELSE IF StartsWith(data, s_run) THEN "run"
    ELSE IF StartsWith(data, s_enable) THEN "enable"
    ELSE IF StartsWith(data, s_disable) THEN "disable"
    ELSE IF StartsWith(data, s_backup) THEN "backup"
    ELSE IF StartsWith(data, s_delete) THEN "delete"
    ELSE IF data = s_status THEN "status"
    ELSE "unknown"

TakesId(b) == b \in {"run", "enable", "disable", "backup", "delete"}

Result(exc, msgs, cs, loc, f) ==
    [exc |-> exc, msgs |-> msgs, calls |-> cs, loc |-> loc, fs |-> f]

Falsey(wfs) == wfs = NoneType \/ (wfs.type = "list" /\ wfs.items = <<>>)

\* the body of the try block, up to the first exception (exc) or to its end
TryBody(data, e, f) ==
    LET b == Branch(data)
        wf_id == IF TakesId(b) THEN SplitOnce(data) ELSE None
        loc == [NoLocals EXCEPT !.branch = b, !.wf_id = wf_id]
    IN  CASE b = "backup_n8n" ->
               LET m == make_backup(e.fault, f)
               IN  IF m.exc THEN Result(TRUE, <<>>, m.calls, loc, m.fs)
                   ELSE IF e.fault = "send"
                   THEN Result(TRUE, <<Attachment(TRUE)>>, m.calls, loc, m.fs)
                   ELSE Result(FALSE, <<Attachment(FALSE), Edit(0, "Backup completed")>>,
                               m.calls, loc, m.fs)
          [] b = "restore_n8n" ->
               Result(FALSE, <<Edit(0, "Please upload backup")>>, <<>>, loc, f)
          [] b = "delete_logs" ->
               LET d == delete_all_in("logs", f.logs, e.del)
               IN  Result(d.exc, IF d.exc THEN <<>> ELSE <<Edit(0, "Logs deleted")>>,
                          d.calls, loc, [f EXCEPT !.logs = d.dir])
          [] b = "delete_backups" ->
               LET d == delete_all_in("backups", f.backups, e.del)
               IN  Result(d.exc, IF d.exc THEN <<>> ELSE <<Edit(0, "Backups deleted")>>,
                          d.calls, loc, [f EXCEPT !.backups = d.dir])
          [] b = "list_workflows" ->
               LET l == list_workflows(e.r)
                   k == workflow_keyboard(l.ret)
                   lw == [loc EXCEPT !.wfs = l.ret]
               IN  IF Falsey(l.ret)
                   THEN Result(FALSE, <<Edit(0, "No workflows found or API inaccessible.")>>,
                               l.calls, lw, f)
                   ELSE IF k.exc THEN Result(TRUE, <<>>, l.calls, lw, f)
                   ELSE Result(FALSE,
                               <<[Edit(0, "Select a workflow:") EXCEPT !.markup = k.markup]>>,
                               l.calls, lw, f)
          [] b = "run" ->
               LET x == run_workflow(wf_id, e.rs)
               IN  Result(FALSE,
                          <<[Edit(0, "Run result") EXCEPT
                               !.detail = IF x.ret.ok THEN "ok" ELSE "Failed to trigger workflow."]>>,
                          x.calls, [loc EXCEPT !.res = x.ret], f)
          [] b = "enable" ->
               LET x == enable_workflow(wf_id, e.r)
               IN  Result(FALSE, <<Edit(0, IF x.ret THEN "Workflow enabled" ELSE "Enable failed")>>,
                          x.calls, loc, f)
          [] b = "disable" ->
               LET x == disable_workflow(wf_id, e.r)
               IN  Result(FALSE, <<Edit(0, IF x.ret THEN "Workflow disabled" ELSE "Disable failed")>>,
                          x.calls, loc, f)
          [] b = "backup" ->
               LET x == export_workflow(wf_id, e.r, e.fault, f)
               IN  IF x.exc THEN Result(TRUE, <<>>, x.calls, loc, x.fs)
                   ELSE IF x.ret = None
                   THEN Result(FALSE, <<Edit(0, "Export failed")>>, x.calls, loc, x.fs)
                   ELSE IF e.fault = "send"
                   THEN Result(TRUE, <<Attachment(TRUE)>>, x.calls, loc, x.fs)
                   ELSE Result(FALSE, <<Attachment(FALSE), Edit(0, "Workflow backup sent")>>,
                               x.calls, loc, x.fs)
          [] b = "delete" ->
               LET x == delete_workflow(wf_id, e.r)
               IN  Result(FALSE, <<Edit(0, IF x.ret THEN "Workflow deleted" ELSE "Delete failed")>>,
                          x.calls, loc, f)
          [] b = "status" ->
               LET x == get_container_status(e.c, e.status)
               IN  Result(FALSE, <<[Edit(0, "status") EXCEPT !.detail = x.ret]>>,
                          Popen \o x.calls, loc, f)
          [] OTHER -> Result(FALSE, <<Edit(0, "Unknown action.")>>, <<>>, loc, f)

\* the keyboard the pressed message shows after its last edit
MenuAfter(msgs, loc) ==
    LET last == msgs[Len(msgs)]
    IN  IF last.markup = NoKeyboard THEN NoMenu
        ELSE [markup |-> last.markup,
              wids |-> [i \in 1..Len(loc.wfs.items) |-> Wid(loc.wfs.items[i])]]

\* callback_handler without its except clause: a fault of the try block leaves the handler
callback_handler_unguarded(u, q, e) ==
    LET t == TryBody(q.data, e, fs)
        msgs == <<Msg("answer", "")>> \o t.msgs
    IN  Handled(CallbackQuery(u, q.data, q.verb, q.wid), msgs, t.calls,
                IF t.exc THEN "escaped" ELSE "returned", t.loc,
                IF q.fromMenu THEN MenuAfter(msgs, t.loc) ELSE menu, t.fs)

\* q: the pressed button: its token, what it was built as, whether it is of the menu
callback_handler(u, q, e) ==
    LET t == TryBody(q.data, e, fs)
        msgs == <<Msg("answer", "")>> \o t.msgs
                \o (IF t.exc THEN <<Edit(0, "Action failed")>> ELSE <<>>)
    IN  Handled(CallbackQuery(u, q.data, q.verb, q.wid), msgs, t.calls, "returned", t.loc,
                IF q.fromMenu THEN MenuAfter(msgs, t.loc) ELSE menu, t.fs)

\* run_polling: the handler has returned (or its exception was logged) and the
\* application waits for the next update
Poll ==
    /\ outcome # "idle"
    /\ update' = NoUpdate
    /\ sent' = <<>>
    /\ calls' = <<>>
    /\ outcome' = "idle"
    /\ locals' = NoLocals
    /\ pre' = fs
    /\ UNCHANGED <<menu, fs>>

(************************ inputs of the environment ************************)
ContainerOutcomes == {"ok", "not_found", "get_error", "op_error"}

ContainerStates == {"running", "exited"}

\* workflows of the registry; their ids include ones that read like a global token's tail
Workflows ==
    { Workflow(<<"7">>, None, None, <<"A">>, None),
      Workflow(<<"n", "8", "n">>, None, None, None, None),
      Workflow(None, <<>>, <<"a", "_", "b">>, None, <<"L">>) }

WorkflowLists == UNION {[1..k -> Workflows] : k \in 0..MaxWorkflows}

\* outcomes of a request whose JSON answer, if any, is one of jsons
HttpOutcomes(jsons) ==
    {Raises, Response(200, "garbage", NoneType), Response(202, "empty", NoneType),
     Response(404, "garbage", NoneType)}
    \cup {Response(200, "json", j) : j \in jsons}

ListOutcomes == HttpOutcomes({List(l) : l \in WorkflowLists} \cup {Dict})

ObjectOutcomes == HttpOutcomes({Dict})

RunOutcomes ==
    {Raises, Response(202, "empty", NoneType), Response(200, "garbage", NoneType),
     Response(404, "garbage", NoneType)}

BackupFaults == {"none", "makedirs", "taropen", "taradd", "send"}

ExportFaults == {"none", "makedirs", "open", "write", "send"}

DeleteOutcomes(d) ==
    {[kind |-> "ok", at |-> "", gone |-> {}]}
    \cup (IF d.exists THEN {[kind |-> "listdir", at |-> "", gone |-> {}]} ELSE {})
    \cup {[kind |-> "remove", at |-> x, gone |-> g] : x \in d.files, g \in SUBSET d.files}

Quiet ==
    [fault |-> "none", r |-> Raises, rs |-> <<Raises, Raises, Raises>>, c |-> "ok",
     status |-> "running", del |-> [kind |-> "ok", at |-> "", gone |-> {}],
     archive |-> "good", readable |-> TRUE]

\* the outcomes the calls of branch b can meet
EnvFor(b) ==
    CASE b = "backup_n8n" -> {[Quiet EXCEPT !.fault = x] : x \in BackupFaults}
      [] b = "delete_logs" -> {[Quiet EXCEPT !.del = x] : x \in DeleteOutcomes(fs.logs)}
      [] b = "delete_backups" -> {[Quiet EXCEPT !.del = x] : x \in DeleteOutcomes(fs.backups)}
      [] b = "list_workflows" -> {[Quiet EXCEPT !.r = x] : x \in ListOutcomes}
      [] b = "run" -> {[Quiet EXCEPT !.rs = x] : x \in [1..3 -> RunOutcomes]}
      [] b \in {"enable", "disable", "delete"} -> {[Quiet EXCEPT !.r = x] : x \in ObjectOutcomes}
      [] b = "backup" ->
           {[Quiet EXCEPT !.r = x, !.fault = y] : x \in ObjectOutcomes, y \in ExportFaults}
      [] b = "status" ->
           {[Quiet EXCEPT !.c = x, !.status = y] :
               x \in ContainerOutcomes \ {"op_error"}, y \in ContainerStates}
      [] OTHER -> {Quiet}

\* names of uploaded documents
FileNames ==
    { <<"b">> \o s_tar_gz, <<"b">> \o s_tgz, <<"w">> \o s_json, <<"w">> \o s_json \o s_tgz,
      <<"b">> \o s_tar_gz \o s_json, <<"n", "o", "t", "e", ".", "t", "x", "t">>,
      <<"j", "s", "o", "n">>, None }

\* tokens of buttons of messages an earlier deployment of the bot left in the chat
StaleTokens == { <<"o", "l", "d">> }

LogLengths == {0, ChunkSize + 1, SingleReplyCeiling + 1, MaxLogLen}

\* the outcomes the calls of handle_file can meet for a document named fname
UploadEnv(fname) ==
    IF fname = None THEN {Quiet}
    ELSE IF EndsWith(fname, s_tar_gz) \/ EndsWith(fname, s_tgz)
    THEN {[Quiet EXCEPT !.archive = a, !.c = c] :
             a \in {"good", "unreadable", "truncated"}, c \in ContainerOutcomes}
    ELSE IF EndsWith(fname, s_json)
    THEN {[Quiet EXCEPT !.readable = a, !.r = r] : a \in BOOLEAN, r \in ObjectOutcomes}
    ELSE {Quiet}

(***************************** specification *******************************)
Init ==
    /\ update = NoUpdate
    /\ sent = <<>>
    /\ calls = <<>>
    /\ outcome = "idle"
    /\ locals = NoLocals
    /\ menu = NoMenu
    /\ fs \in FsStates
    /\ pre = fs

StartCommand ==
    /\ outcome = "idle"
    /\ \E u \in Users : start_handler(u)

HelpCommand ==
    /\ outcome = "idle"
    /\ \E u \in Users : help_handler(u)

StatusCommand ==
    /\ outcome = "idle"
    /\ \E u \in Users, c \in ContainerOutcomes \ {"op_error"}, st \in ContainerStates :
           status_handler(u, c, st)

N8nStartCommand ==
    /\ outcome = "idle"
    /\ \E u \in Users, c \in ContainerOutcomes : n8n_start_cmd(u, c)

N8nStopCommand ==
    /\ outcome = "idle"
    /\ \E u \in Users, c \in ContainerOutcomes : n8n_stop_cmd(u, c)

N8nRestartCommand ==
    /\ outcome = "idle"
    /\ \E u \in Users, c \in ContainerOutcomes : n8n_restart_cmd(u, c)

N8nLogsCommand ==
    /\ outcome = "idle"
    /\ \E u \in Users, rf \in BOOLEAN, c \in ContainerOutcomes, n \in LogLengths :
           n8n_logs_cmd(u, rf, c, n)

BackupCommand ==
    /\ outcome = "idle"
    /\ \E u \in Users, x \in BackupFaults : backup_cmd(u, x)

RestoreCommand ==
    /\ outcome = "idle"
    /\ \E u \in Users : restore_cmd_prompt(u)

ListWorkflowsCommand ==
    /\ outcome = "idle"
    /\ \E u \in Users : list_workflows_cmd(u)

\* a press of a button of the menu message
PressButton ==
    /\ outcome = "idle"
    /\ \E u \in Users, i \in 1..Len(menu.markup) :
           \E j \in 1..Len(menu.markup[i]) :
               LET b == menu.markup[i][j]
                   q == [data |-> b.callback_data,
                         verb |-> IF menu.wids = <<>> THEN "" ELSE b.verb,
                         wid |-> IF menu.wids = <<>> THEN None ELSE menu.wids[i],
                         fromMenu |-> TRUE]
               IN  \E e \in EnvFor(Branch(b.callback_data)) : callback_handler(u, q, e)

PressStaleButton ==
    /\ outcome = "idle"
    /\ \E u \in Users, d \in StaleTokens :
           \E e \in EnvFor(Branch(d)) :
               callback_handler(u, [data |-> d, verb |-> "", wid |-> None, fromMenu |-> FALSE], e)

UploadDocument ==
    /\ outcome = "idle"
    /\ \E u \in Users, n \in FileNames :
          \E e \in UploadEnv(n) :
              handle_file(u, n, e.archive, e.c, e.readable, e.r)

Next ==
    \/ StartCommand
    \/ HelpCommand
    \/ StatusCommand
    \/ N8nStartCommand
    \/ N8nStopCommand
    \/ N8nRestartCommand
    \/ N8nLogsCommand
    \/ BackupCommand
    \/ RestoreCommand
    \/ ListWorkflowsCommand
    \/ PressButton
    \/ PressStaleButton
    \/ UploadDocument
    \/ Poll

Spec == Init /\ [][Next]_vars

(***************************************************************************)
(* The log command alone, over every length of log text up to MaxLogLen.   *)
(***************************************************************************)
InitLogs ==
    /\ Init
    /\ fs.backups = Absent
    /\ fs.data = Absent
    /\ fs.logs \in {Absent, [exists |-> TRUE, files |-> {"n8n.log"}, dirs |-> {"archive"}]}

LogsOfAnyLength ==
    /\ outcome = "idle"
    /\ \E u \in Users, rf \in BOOLEAN, c \in ContainerOutcomes, n \in 0..MaxLogLen :
           n8n_logs_cmd(u, rf, c, n)

NextLogs == LogsOfAnyLength \/ Poll

SpecLogs == InitLogs /\ [][NextLogs]_vars

(******************************* properties ********************************)
Handling == outcome # "idle"

Last(q) == q[Len(q)]

Indices(q, P(_)) == {i \in 1..Len(q) : P(q[i])}

IsExternal(c) == c.sys \in {"docker", "http", "fs", "tar", "os"}

\* C1: a caller other than the authorized one gets exactly the reply
\* "Unauthorized" from every command, every button press and every upload, and
\* the handler issues no container, HTTP or filesystem call for that caller.
C1_UnauthorizedDenied ==
    (Handling /\ update.user # AUTHORIZED_ID)
        => (sent = <<Reply("Unauthorized")>> /\ Indices(calls, IsExternal) = {})

\* the keyword on a workflow-menu button, as the verb it was built for
VerbOf(label) ==
    CASE label = "Run" -> "run"
      [] label = "Enable" -> "enable"
      [] label = "Disable" -> "disable"
      [] label = "Backup" -> "backup"
      [] label = "Delete" -> "delete"
      [] OTHER -> ""

OfWorkflowMenu == Handling /\ update.kind = "callback" /\ update.verb # ""

\* C2: the token the workflow menu builds for verb v and workflow id w is
\* dispatched to verb v with target w, never to another branch.
C2_TokenRoundTrip ==
    OfWorkflowMenu
        => (locals.branch = VerbOf(update.verb) /\ locals.wf_id = update.wid)

IsArchiveName(n) == n # None /\ (EndsWith(n, s_tar_gz) \/ EndsWith(n, s_tgz))

IsJsonName(n) == n # None /\ ~IsArchiveName(n) /\ EndsWith(n, s_json)

IsExtraction(c) == c.sys = "tar" /\ c.op = "extractall"

Finished(c) == IsExtraction(c) /\ ~c.raised

IsRestart(c) == c.sys = "docker" /\ c.arg = "restart"

ArchiveUpload == Handling /\ update.kind = "document" /\ IsArchiveName(update.data)

IsImport(c) == c.sys = "http" /\ c.op = "POST" /\ c.arg = Url(<<>>, "import")

IsRead(c) == c.sys = "fs" /\ c.op = "read"

JsonUpload == Handling /\ update.kind = "document" /\ IsJsonName(update.data)

NoRestore ==
    /\ Indices(calls, LAMBDA c : c.sys = "tar") = {}
    /\ Indices(calls, LAMBDA c : c.sys = "docker") = {}

\* C4 as stated: an upload named *.json calls the import endpoint exactly
\* once, extracts nothing and restarts nothing, whatever the import answers.
C4_ImportExactlyOnce ==
    JsonUpload => (Cardinality(Indices(calls, IsImport)) = 1 /\ NoRestore)

\* C4 amended: an upload named *.json calls the import endpoint at most once,
\* and exactly once when the downloaded file could be read; when reading it
\* raises the endpoint is not called; nothing is extracted or restarted.
C4_ImportOnceWhenReadable ==
    JsonUpload
        => /\ Cardinality(Indices(calls, IsImport))
                = (IF \E i \in Indices(calls, IsRead) : calls[i].raised THEN 0 ELSE 1)
           /\ Indices(calls, IsRead) # {}
           /\ NoRestore

C4_Witness ==
    /\ JsonUpload
    /\ Cardinality(Indices(calls, IsImport)) = 1
    /\ Last(sent).text = "Workflow restore failed"

\* an external action of the handler raised: a call, or sending the attachment
Faulted ==
    \/ \E i \in 1..Len(calls) : calls[i].raised
    \/ \E i \in 1..Len(sent) : sent[i].raised

IsFailureMessage(m) ==
    \/ m.text \in {"Action failed", "Enable failed", "Disable failed", "Delete failed",
                   "Export failed", "No workflows found or API inaccessible."}
    \/ m.text = "Run result" /\ m.detail = "Failed to trigger workflow."
    \/ m.text = "status" /\ m.detail \in {"not found", "error"}

ButtonPress == Handling /\ update.kind = "callback"

Listed == Handling /\ locals.wfs # Unset

\* the request of list_workflows raised, timed out, or was answered outside 2xx
ListFailed ==
    \E i \in 1..Len(calls) :
        /\ calls[i].sys = "http"
        /\ calls[i].op = "GET"
        /\ calls[i].raised \/ calls[i].status \notin 200..299

\* C6: when the request of list() raises, times out or is answered with a
\* non-2xx status, list() returns the empty sequence, the value it returns for
\* a server without workflows.
C6_EmptyOnFailure == (Listed /\ ListFailed) => locals.wfs = List(<<>>)

Ran == Handling /\ locals.branch = "run"

HasAcceptedStatus(c) == ~c.raised /\ c.status \in {200, 201, 202}

\* C7: run(id) posts to its candidates in their fixed order, each at most
\* once, stops at the first one answered 200, 201 or 202 and then returns
\* ok:true; it returns ok:false iff no candidate was answered so.
C7_FirstAcceptedWins ==
    Ran
        => /\ Len(calls) <= Len(Endpoints(locals.wf_id))
           /\ \A i \in 1..Len(calls) :
                /\ calls[i].op = "POST"
                /\ calls[i].arg = Endpoints(locals.wf_id)[i]
                /\ HasAcceptedStatus(calls[i]) => i = Len(calls)
           /\ locals.res.ok <=> (Indices(calls, HasAcceptedStatus) # {})
           /\ ~locals.res.ok => Len(calls) = Len(Endpoints(locals.wf_id))

Tailed == Handling /\ update.name = "n8n_logs"

\* C8 as stated: no reply of the log command carries more than 3500
\* characters, and output longer than 3500 characters goes out as several
\* replies.
C8_ChunksOf3500 ==
    Tailed
        => /\ \A i \in 1..Len(sent) : sent[i].len <= ChunkSize
           /\ locals.res.len > ChunkSize => Len(sent) > 1

\* C8 amended: output longer than 4000 characters goes out as several replies
\* in sequence, each a chunk of at most 3500 characters and together the whole
\* output; output of at most 4000 characters goes out as one reply, which
\* carries the output behind the 6-character "Logs:\n" prefix (so up to 4006).
C8_ChunksAboveCeiling ==
    Tailed
        => IF locals.res.len > SingleReplyCeiling
           THEN /\ Len(sent) > 1
                /\ \A i \in 1..Len(sent) :
                     /\ sent[i].len >= 1
                     /\ sent[i].len <= ChunkSize
                     /\ sent[i].off = (IF i = 1 THEN 0 ELSE sent[i - 1].off + sent[i - 1].len)
                /\ Last(sent).off + Last(sent).len = locals.res.len
           ELSE /\ Len(sent) = 1
                /\ sent[1].len = locals.res.len + LogsPrefixLen

C8_Witness ==
    /\ Tailed
    /\ locals.res.len > 2 * ChunkSize
    /\ Len(sent) = 3

IsEdit(m) == m.op = "edit"

IsSentAttachment(m) == m.op = "reply_document" /\ ~m.raised

BackupCommanded == Handling /\ update.kind = "command" /\ update.name = "backup"

DeletedAll(dir) ==
    /\ Handling
    /\ locals.branch = (IF dir = "logs" THEN "delete_logs" ELSE "delete_backups")
    /\ ~IsFailureMessage(Last(sent))

\* C10: after logs.delete_all (backups.delete_all) completes, no regular file
\* is left directly in the log (backup) directory, its subdirectories and the
\* other directories are as before, and when the directory does not exist
\* nothing changes and the success message is still sent.
C10_OnlyFilesOfTargetRemoved ==
    /\ DeletedAll("logs")
         => /\ Last(sent).text = "Logs deleted"
            /\ fs.logs = [pre.logs EXCEPT !.files = {}]
            /\ fs.backups = pre.backups
            /\ fs.data = pre.data
    /\ DeletedAll("backups")
         => /\ Last(sent).text = "Backups deleted"
            /\ fs.backups = [pre.backups EXCEPT !.files = {}]
            /\ fs.logs = pre.logs
            /\ fs.data = pre.data
    /\ \A dir \in {"logs", "backups"} :
         (Handling /\ locals.branch = (IF dir = "logs" THEN "delete_logs" ELSE "delete_backups")
            /\ ~pre[dir].exists)
           => (fs = pre /\ ~IsFailureMessage(Last(sent)))

C10_Witness ==
    /\ DeletedAll("logs")
    /\ pre.logs.files # {}
    /\ pre.logs.dirs # {}
    /\ fs.logs.files = {}
====
